---- MODULE Spec2Model ----
(***************************************************************************)
(* Model of linprog_curvefit.py: the formulation of an L1 polynomial fit   *)
(* as a linear program (variables, objective, constraints), the call into  *)
(* the LP solver and the extraction of the solved coefficients.            *)
(*                                                                         *)
(* One behaviour is one top-level call: get_optimal_polynomial,            *)
(* minimize_error, or _generate_variables called directly (as the unit     *)
(* test does).  Init draws the call's arguments; the actions are the       *)
(* statements of the called functions, in program order.                   *)
(*                                                                         *)
(* Reals are modelled by integers.  The LP solver (ortools GLOP) is not    *)
(* part of the repository: Solve is modelled by its contract, searching    *)
(* the integer points of the box -GridMax..GridMax for the assignments     *)
(* that satisfy every constraint and bound and are best for the objective. *)
(***************************************************************************)
EXTENDS Integers, Sequences, FiniteSets, TLC

\* ------------------------------------------------------------------ bounds
MaxPoints == 2        \* longest sequence of data points drawn by Init
GridMax == 1          \* the solver searches values in -GridMax..GridMax
LongCoeff == 27       \* the longest coefficient list drawn by Init

\* -------------------------------------------------------- program constants
AlphabetLen == 26     \* len(string.ascii_lowercase)
DefaultErrMax == 10000
DemoErrMax == 100

\* ------------------------------------------------------------- Python values
\* A bound value: None, a number, +-solver.Infinity(), or (for a local
\* variable) not yet assigned.
None == [k |-> "none", v |-> 0]
Num(n) == [k |-> "num", v |-> n]
NegInf == [k |-> "ninf", v |-> 0]
PosInf == [k |-> "pinf", v |-> 0]
Unbound == [k |-> "unbound", v |-> 0]

\* An optional argument: None or a value.
NoArg == [none |-> TRUE, val |-> <<>>]
Arg(x) == [none |-> FALSE, val |-> x]

ascii_lowercase ==
  << "a", "b", "c", "d", "e", "f", "g", "h", "i", "j", "k", "l", "m",
     "n", "o", "p", "q", "r", "s", "t", "u", "v", "w", "x", "y", "z" >>

Digits == << "0", "1", "2", "3", "4", "5", "6", "7", "8", "9" >>

\* str(n) for n >= 0
RECURSIVE str(_)
str(n) == IF n < 10 THEN Digits[n + 1]
          ELSE str(n \div 10) \o Digits[(n % 10) + 1]

\* x ** p for an integer p >= 0 (0 ** 0 is 1 in Python)
RECURSIVE PyPow(_, _)
PyPow(x, p) == IF p = 0 THEN 1 ELSE x * PyPow(x, p - 1)

\* f with f[i] set to w (SetCoefficient, dict item assignment by index)
SetAt(f, i, w) == [j \in (DOMAIN f) \cup {i} |-> IF j = i THEN w ELSE f[j]]

RECURSIVE SetAll(_, _, _)
SetAll(f, idxs, w) ==
  IF idxs = <<>> THEN f ELSE SetAll(SetAt(f, Head(idxs), w), Tail(idxs), w)

WeightOf(f, i) == IF i \in DOMAIN f THEN f[i] ELSE 0

\* ------------------------------------------------------------------- inputs
\* Data points <<x, y>>: two with the same x and different y (no curve fits
\* both exactly), x = 0 (0 ** 0) and x = 2 (whose powers differ).
PointVals == {<<0, 0>>, <<0, 1>>, <<2, 1>>}

RECURSIVE SeqsUpTo(_, _)
SeqsUpTo(S, n) ==
  IF n = 0 THEN {<<>>}
  ELSE LET shorter == SeqsUpTo(S, n - 1)
       IN shorter \cup {Append(s, x) : s \in {t \in shorter : Len(t) = n - 1}, x \in S}

PointInputs == {NoArg} \cup {Arg(p) : p \in SeqsUpTo(PointVals, MaxPoints)}

BoundVals == {None, Num(-1), Num(1)}
BoundPairs == BoundVals \X BoundVals
AllNone(n) == [i \in 1..n |-> <<None, None>>]

\* Coefficient ranges: None, every list of at most two pairs, and the
\* all-unbounded lists of three pairs and of LongCoeff pairs.
RangeInputs ==
  {NoArg} \cup {Arg(r) : r \in SeqsUpTo(BoundPairs, 2)}
          \cup {Arg(AllNone(3)), Arg(AllNone(LongCoeff))}

\* The coefficient ranges minimize_error is called with.
MinimizeRangeInputs ==
  {NoArg, Arg(AllNone(2)), Arg(AllNone(3)),
   Arg(<< <<Num(-1), Num(1)>>, <<Num(-1), Num(1)>> >>)}

ErrMaxVals == {-1, 0, 1}
ErrorDefinition == {"SUM_ABS_DEV", "SUM_MAX_DEVIATION"}

\* The solver argument of get_optimal_polynomial: None (a fresh solver is
\* constructed), or a caller's solver, whose objective is in minimization
\* (the library's default) or maximization mode.
SolverArgs == {"None", "MIN", "MAX"}

Entries == {"get_optimal_polynomial", "minimize_error", "_generate_variables"}

\* Parameter names of _generate_variables, and the keywords of the two call
\* forms: get_optimal_polynomial's and the unit test's.
GenVarsParams == {"solver", "points", "coeff_ranges", "err_max", "error_def"}
CallKeywords == {GenVarsParams, {"solver", "points", "coeff_ranges", "max_err"}}

\* -------------------------------------------------------------------- state
VARIABLES
  entry,        \* the top-level function called
  points,       \* argument: NoArg or Arg(sequence of <<x, y>>)
  coeff_ranges, \* argument: NoArg or Arg(sequence of <<min, max>>)
  err_max,      \* argument
  error_def,    \* argument
  solverArg,    \* argument of get_optimal_polynomial
  kwargs,       \* keywords of the direct _generate_variables call
  pc,           \* position in the program
  lpVars,       \* solver: variables, [lb, ub, name], in creation order
  lpCons,       \* solver: constraints, [lb, ub, coef], in creation order
  objCoef,      \* solver: objective coefficients set, variable index -> weight
  objDir,       \* solver: optimization direction, "MIN" or "MAX"
  solveCalls,   \* number of calls of solver.Solve()
  status,       \* result status of the last Solve
  solution,     \* solution_value() of each solver variable
  coeff_names,  \* local of _generate_variables
  lower_bound,  \* local of _generate_variables
  upper_bound,  \* local of _generate_variables
  loop,         \* loop counter of the running for statement
  variables,    \* the list of variable handles (indices into lpVars)
  result,       \* the value returned by the top-level call
  exception     \* the exception that ended the call, "" when none

vars == << entry, points, coeff_ranges, err_max, error_def, solverArg, kwargs,
           pc, lpVars, lpCons, objCoef, objDir, solveCalls, status, solution,
           coeff_names, lower_bound, upper_bound, loop, variables, result,
           exception >>

inputs == << entry, points, coeff_ranges, err_max, error_def, solverArg, kwargs >>
solverState == << lpVars, lpCons, objCoef, objDir, solveCalls, status, solution >>
genLocals == << coeff_names, lower_bound, upper_bound >>

NoResult == [kind |-> "none", val |-> <<>>]

Init ==
  /\ entry \in Entries
  /\ points \in PointInputs
  /\ coeff_ranges \in (IF entry = "minimize_error" THEN MinimizeRangeInputs
                       ELSE RangeInputs)
  /\ err_max \in (IF entry = "minimize_error" THEN {DefaultErrMax} ELSE ErrMaxVals)
  /\ error_def \in (IF entry = "get_optimal_polynomial" THEN ErrorDefinition
                    ELSE {"SUM_ABS_DEV"})
  /\ solverArg \in (IF entry = "get_optimal_polynomial" THEN SolverArgs ELSE {"None"})
  /\ kwargs \in (IF entry = "_generate_variables" THEN CallKeywords ELSE {GenVarsParams})
  \* a list too long to name is drawn with one setting of the other arguments:
  \* the names are generated before any other argument is read
  /\ (~coeff_ranges.none /\ Len(coeff_ranges.val) > AlphabetLen)
     => /\ points = Arg(<<>>)
        /\ err_max = 0
        /\ error_def = "SUM_ABS_DEV"
        /\ solverArg = "None"
  /\ pc = "call"
  /\ lpVars = <<>>
  /\ lpCons = <<>>
  /\ objCoef = <<>>
  /\ objDir = (IF solverArg = "MAX" THEN "MAX" ELSE "MIN")
  /\ solveCalls = 0
  /\ status = "NOT_SOLVED"
  /\ solution = <<>>
  /\ coeff_names = <<>>
  /\ lower_bound = Unbound
  /\ upper_bound = Unbound
  /\ loop = 0
  /\ variables = <<>>
  /\ result = NoResult
  /\ exception = ""

\* Raising: the call ends with the exception, nothing else changes.
Raise(e) ==
  /\ pc' = "raised"
  /\ exception' = e


Return(kind, val) ==
  /\ pc' = "done"
  /\ result' = [kind |-> kind, val |-> val]

\* -------------------------------------------------- _generate_variables
N == Len(coeff_ranges.val)
M == Len(points.val)

\* A call binds its keywords to the parameters: an unknown keyword, or a
\* parameter without a value, is a TypeError raised before the body runs.
CallGenerateVariables ==
  /\ pc = "call"
  /\ entry = "_generate_variables"
  /\ IF kwargs # GenVarsParams
     THEN Raise("TypeError") /\ UNCHANGED result
     ELSE pc' = "gv_names" /\ UNCHANGED << result, exception >>
  /\ UNCHANGED << inputs, solverState, genLocals, loop, variables >>

\* lines 108-118: the coefficient names
CoeffNames(n) ==
  IF n = 2 THEN << "m", "b" >> ELSE [i \in 1..n |-> ascii_lowercase[i]]

GenVarsNames ==
  /\ pc = "gv_names"
  /\ IF coeff_ranges.none
     THEN Raise("TypeError") /\ UNCHANGED coeff_names        \* len(None)
     ELSE IF N # 2 /\ N > AlphabetLen
     THEN Raise("IndexError") /\ UNCHANGED coeff_names       \* line 118
     ELSE /\ coeff_names' = CoeffNames(N)
          /\ pc' = "gv_coeff"
          /\ UNCHANGED exception
  /\ loop' = 0
  /\ UNCHANGED << inputs, solverState, lower_bound, upper_bound, variables, result >>

\* solver.NumVar(lb, ub, name): a new variable, whose handle is its index
NumVar(lb, ub, name) == Append(lpVars, [lb |-> lb, ub |-> ub, name |-> name])

\* lines 120-123: the bounds of the variable about to be created
LowerBoundFor(range) == IF range[1] = None THEN NegInf ELSE lower_bound
UpperBoundFor(range) == IF range[2] = None THEN PosInf ELSE upper_bound

\* lines 119-125: one pass of the loop over the coefficients
GenVarsCoeff ==
  /\ pc = "gv_coeff"
  /\ IF loop < N
     THEN LET range == coeff_ranges.val[loop + 1]
              lb == LowerBoundFor(range)
              ub == UpperBoundFor(range)
          IN /\ lower_bound' = lb
             /\ upper_bound' = ub
             /\ IF lb = Unbound \/ ub = Unbound
                THEN /\ Raise("UnboundLocalError")
                     /\ UNCHANGED << lpVars, variables, loop >>
                ELSE /\ lpVars' = NumVar(lb, ub, coeff_names[loop + 1])
                     /\ variables' = Append(variables, Len(lpVars) + 1)
                     /\ loop' = loop + 1
                     /\ UNCHANGED << pc, exception >>
     ELSE /\ pc' = "gv_points"
          /\ loop' = 0
          /\ UNCHANGED << lower_bound, upper_bound, lpVars, variables, exception >>
  /\ UNCHANGED << inputs, lpCons, objCoef, objDir, solveCalls, status, solution,
                  coeff_names, result >>

ErrVarName(point_cnt, sign) == "e" \o str(point_cnt + 1) \o sign

\* lines 128-137: one pass of the loop over the points, or the return
GenVarsPoints ==
  /\ pc = "gv_points"
  /\ IF points.none
     THEN Raise("TypeError") /\ UNCHANGED << lpVars, variables, loop, result >>
     ELSE IF loop < M
     THEN LET pos == [lb |-> Num(0), ub |-> Num(err_max),
                      name |-> ErrVarName(loop, "_plus")]
              neg == [lb |-> Num(0), ub |-> Num(err_max),
                      name |-> ErrVarName(loop, "_minus")]
          IN /\ lpVars' = lpVars \o << pos, neg >>
             /\ variables' = variables \o << Len(lpVars) + 1, Len(lpVars) + 2 >>
             /\ loop' = loop + 1
             /\ UNCHANGED << pc, exception, result >>
     ELSE /\ IF entry = "_generate_variables"
             THEN Return("list", variables)
             ELSE pc' = "after_vars" /\ UNCHANGED result
          /\ UNCHANGED << lpVars, variables, loop, exception >>
  /\ UNCHANGED << inputs, lpCons, objCoef, objDir, solveCalls, status, solution,
                  genLocals >>

\* ---------------------------------------------------- get_optimal_polynomial
\* lines 191-198: the test of coeff_ranges, the solver, the call of _generate_variables
GetOptimalPolynomial ==
  /\ pc = "call"
  /\ entry = "get_optimal_polynomial"
  /\ IF coeff_ranges.none
     THEN Raise("ValueError")
     ELSE pc' = "gv_names" /\ UNCHANGED exception
  /\ UNCHANGED << inputs, solverState, genLocals, loop, variables, result >>

\* lines 199-201: the diagnostics read variables[0]
GopAfterVariables ==
  /\ pc = "after_vars"
  /\ IF Len(variables) < 1
     THEN Raise("IndexError")
     ELSE pc' = "objective" /\ UNCHANGED exception
  /\ UNCHANGED << inputs, solverState, genLocals, loop, variables, result >>

\* lines 139-146: weight 1 on every variable after the first num_of_coeff
ObjectiveCoefficients(num_of_coeff, vs) ==
  SetAll(objCoef, SubSeq(vs, num_of_coeff + 1, Len(vs)), 1)

GenerateObjectiveFn ==
  /\ pc = "objective"
  /\ objCoef' = ObjectiveCoefficients(N, variables)
  /\ pc' = "constraints"
  /\ UNCHANGED << inputs, lpVars, lpCons, objDir, solveCalls, status, solution,
                  genLocals, loop, variables, result, exception >>

\* CoeffTerms with the powers in ascending order: the first coefficient
\* variable taken for the constant term
RECURSIVE CoeffTermsAscending(_, _, _, _, _)
CoeffTermsAscending(coef, x, num_of_coeff, vs, coeff_num) ==
  IF coeff_num >= num_of_coeff \/ coeff_num >= Len(vs) THEN coef
  ELSE CoeffTermsAscending(SetAt(coef, vs[coeff_num + 1], PyPow(x, coeff_num)),
                           x, num_of_coeff, vs, coeff_num + 1)

\* lines 155-161: the coefficient terms of one point's constraint
RECURSIVE CoeffTerms(_, _, _, _, _)
CoeffTerms(coef, x, num_of_coeff, vs, coeff_num) ==
  IF coeff_num >= num_of_coeff \/ coeff_num >= Len(vs) THEN coef
  ELSE CoeffTerms(SetAt(coef, vs[coeff_num + 1], PyPow(x, num_of_coeff - coeff_num - 1)),
                  x, num_of_coeff, vs, coeff_num + 1)

\* lines 152-170: the constraint of point number point_num (from 0)
ConstraintFor(point, point_num, num_of_coeff, vs) ==
  LET terms == CoeffTerms(<<>>, point[1], num_of_coeff, vs, 0)
      ex_plus == vs[num_of_coeff + 2 * point_num + 1]
      ex_minus == vs[num_of_coeff + 2 * point_num + 2]
  IN [lb |-> point[2], ub |-> point[2],
      coef |-> SetAt(SetAt(terms, ex_plus, -1), ex_minus, 1)]

GenerateConstraints ==
  /\ pc = "constraints"
  /\ lpCons' = lpCons \o [i \in 1..M |-> ConstraintFor(points.val[i], i - 1, N, variables)]
  /\ pc' = "solve"
  /\ UNCHANGED << inputs, lpVars, objCoef, objDir, solveCalls, status, solution,
                  genLocals, loop, variables, result, exception >>


\* ------------------------------------------------------------ solver.Solve()
\* The values the search tries for a variable: its bounds, cut to the grid.
VarRange(v) ==
  LET lo == IF v.lb.k = "num" /\ v.lb.v > -GridMax THEN v.lb.v ELSE -GridMax
      hi == IF v.ub.k = "num" /\ v.ub.v < GridMax THEN v.ub.v ELSE GridMax
  IN IF v.lb.k = "pinf" \/ v.ub.k = "ninf" THEN {} ELSE lo..hi

\* sum of f[i] * a[i] over the variables 1..k
RECURSIVE LinearForm(_, _, _)
LinearForm(f, a, k) ==
  IF k = 0 THEN 0 ELSE LinearForm(f, a, k - 1) + WeightOf(f, k) * a[k]

\* the last variable with a nonzero weight in the constraint (0: none)
RECURSIVE LastTerm(_, _)
LastTerm(c, k) ==
  IF k = 0 THEN 0
  ELSE IF WeightOf(c.coef, k) # 0 THEN k ELSE LastTerm(c, k - 1)

Satisfies(c, a) ==
  LET value == LinearForm(c.coef, a, Len(a))
  IN c.lb <= value /\ value <= c.ub

\* The assignments of the first k variables that are within the bounds and
\* satisfy every constraint whose terms all lie among those variables.
RECURSIVE Partial(_, _, _)
Partial(vs, cs, k) ==
  LET decided == {j \in 1..Len(cs) : LastTerm(cs[j], Len(vs)) = k}
      extended == IF k = 0 THEN {<<>>}
                  ELSE {Append(a, x) : a \in Partial(vs, cs, k - 1), x \in VarRange(vs[k])}
  IN {a \in extended : \A j \in decided : Satisfies(cs[j], a)}

Feasible(vs, cs) == Partial(vs, cs, Len(vs))

ObjectiveValue(a) == LinearForm(objCoef, a, Len(a))

Better(v, w) == IF objDir = "MIN" THEN v < w ELSE v > w

\* the feasible assignments whose objective value no feasible one betters
Optimal(vs, cs) ==
  LET feasible == Feasible(vs, cs)
      values == {ObjectiveValue(a) : a \in feasible}
      best == {v \in values : \A w \in values : ~Better(w, v)}
  IN {a \in feasible : ObjectiveValue(a) \in best}

\* One call of Solve: OPTIMAL with one of the best assignments, or INFEASIBLE
\* when no assignment satisfies the bounds and constraints; solution_value()
\* is then 0 for every variable.
Solve ==
  /\ pc = "solve"
  /\ solveCalls' = solveCalls + 1
  /\ LET best == Optimal(lpVars, lpCons)
     IN IF best = {}
        THEN /\ status' = "INFEASIBLE"
             /\ solution' = [i \in 1..Len(lpVars) |-> 0]
        ELSE /\ status' = "OPTIMAL"
             /\ solution' \in best
  /\ pc' = IF entry = "minimize_error" THEN "demo_return" ELSE "after_solve"
  /\ UNCHANGED << inputs, lpVars, lpCons, objCoef, objDir, genLocals, loop,
                  variables, result, exception >>

\* lines 208-211: the diagnostics read variables[0] and variables[1]
GopAfterSolve ==
  /\ pc = "after_solve"
  /\ IF Len(variables) < 2
     THEN Raise("IndexError")
     ELSE pc' = "extract" /\ UNCHANGED exception
  /\ UNCHANGED << inputs, solverState, genLocals, loop, variables, result >>

\* d[key] = value on a dict kept as the sequence of its items, in insertion
\* order: an existing key keeps its place and takes the new value.
DictSet(d, key, value) ==
  IF \E i \in 1..Len(d) : d[i][1] = key
  THEN [i \in 1..Len(d) |-> IF d[i][1] = key THEN << key, value >> ELSE d[i]]
  ELSE Append(d, << key, value >>)

\* lines 212-214: name -> solution_value() of the first num_of_coeff variables
RECURSIVE VarToVal(_, _, _)
VarToVal(d, vs, k) ==
  IF k > Len(vs) THEN d
  ELSE VarToVal(DictSet(d, lpVars[vs[k]].name, solution[vs[k]]), vs, k + 1)

ExtractCoefficients ==
  /\ pc = "extract"
  /\ Return("dict", VarToVal(<<>>, SubSeq(variables, 1, N), 1))
  /\ UNCHANGED << inputs, solverState, genLocals, loop, variables, exception >>

\* ------------------------------------------------------------ minimize_error
DefaultPoints == << <<0, 0>>, <<1, 1>> >>
DefaultCoeffRanges == << <<Num(-100), Num(100)>>, <<Num(-100), Num(100)>> >>

\* lines 230-233: the defaults of missing arguments
MinimizeError ==
  /\ pc = "call"
  /\ entry = "minimize_error"
  /\ points' = IF points.none THEN Arg(DefaultPoints) ELSE points
  /\ coeff_ranges' = IF coeff_ranges.none THEN Arg(DefaultCoeffRanges) ELSE coeff_ranges
  /\ pc' = "demo"
  /\ UNCHANGED << entry, err_max, error_def, solverArg, kwargs, solverState,
                  genLocals, loop, variables, result, exception >>

\* lines 71-82: m, b and the five pairs of deviation variables
DemoVariables ==
  << [lb |-> NegInf, ub |-> PosInf, name |-> "m"],
     [lb |-> NegInf, ub |-> PosInf, name |-> "b"] >>
  \o [i \in 1..10 |->
        [lb |-> Num(0), ub |-> Num(DemoErrMax),
         name |-> ErrVarName((i - 1) \div 2, IF i % 2 = 1 THEN "_plus" ELSE "_minus")]]

\* lines 45-63: the constraint i*m + b - e_plus + e_minus = y of demo point i
\* (the first has no term in m)
DemoY == << 1, 3, 2, 4, 5 >>
DemoConstraint(i) ==
  LET mb == IF i = 0 THEN SetAt(<<>>, 2, 1) ELSE SetAt(SetAt(<<>>, 1, i), 2, 1)
  IN [lb |-> DemoY[i + 1], ub |-> DemoY[i + 1],
      coef |-> SetAt(SetAt(mb, 3 + 2 * i, -1), 4 + 2 * i, 1)]

\* lines 67-92: demo_linear builds its own LP, whatever its arguments
DemoLinear ==
  /\ pc = "demo"
  /\ lpVars' = DemoVariables
  /\ variables' = [i \in 1..Len(DemoVariables) |-> i]
  /\ objCoef' = SetAll(<<>>, [i \in 1..10 |-> i + 2], 1)
  /\ objDir' = "MIN"
  /\ lpCons' = [i \in 1..5 |-> DemoConstraint(i - 1)]
  /\ pc' = "solve"
  /\ UNCHANGED << inputs, solveCalls, status, solution, genLocals, loop, result,
                  exception >>

\* line 238: the value minimize_error returns, in millionths
HardcodedCoefficients == << 1523810, 285714 >>

\* lines 95-99, 236-238: demo_linear's return value is dropped
MinimizeErrorReturn ==
  /\ pc = "demo_return"
  /\ Return("tuple", HardcodedCoefficients)
  /\ UNCHANGED << inputs, solverState, genLocals, loop, variables, exception >>

\* ---------------------------------------------------------------- behaviours
Next ==
  \/ CallGenerateVariables
  \/ GenVarsNames
  \/ GenVarsCoeff
  \/ GenVarsPoints
  \/ GetOptimalPolynomial
  \/ GopAfterVariables
  \/ GenerateObjectiveFn
  \/ GenerateConstraints
  \/ Solve
  \/ GopAfterSolve
  \/ ExtractCoefficients
  \/ MinimizeError
  \/ DemoLinear
  \/ MinimizeErrorReturn

Spec == Init /\ [][Next]_vars

Terminated == pc \in {"done", "raised"}


\* ---------------------------------------------------------------- properties
GenVarsCall == entry = "_generate_variables"
GopCall == entry = "get_optimal_polynomial"

\* the arguments the specification calls invalid: a missing or empty list of
\* ranges, a negative err_max, a range whose lower bound exceeds its upper
InvalidRange(range) ==
  range[1].k = "num" /\ range[2].k = "num" /\ range[1].v > range[2].v

InvalidInput ==
  \/ coeff_ranges.none
  \/ N = 0
  \/ err_max < 0
  \/ \E k \in 1..N : InvalidRange(coeff_ranges.val[k])

\* the bound a range entry asks for: the number, or the infinity of its side
WantedLower(range) == IF range[1] = None THEN NegInf ELSE range[1]
WantedUpper(range) == IF range[2] = None THEN PosInf ELSE range[2]

IsErrVar(v, point_cnt, sign, cap) ==
  v = [lb |-> Num(0), ub |-> Num(cap), name |-> ErrVarName(point_cnt, sign)]

\* C1: every call of _generate_variables with N >= 1 coefficient ranges, M >= 0
\* points and err_max >= 0, the unit test's call form included, returns the
\* list of N + 2*M variables: the N coefficients, then for each point its
\* positive and its negative deviation variable, each bounded [0, err_max].
C1_ReturnsAllVariables ==
  (GenVarsCall /\ Terminated /\ ~coeff_ranges.none /\ ~points.none
     /\ N >= 1 /\ err_max >= 0)
  => /\ pc = "done"
     /\ result.kind = "list"
     /\ Len(result.val) = N + 2 * M
     /\ \A k \in 1..N : lpVars[result.val[k]].name = CoeffNames(N)[k]
     /\ \A i \in 1..M :
          /\ IsErrVar(lpVars[result.val[N + 2 * i - 1]], i - 1, "_plus", err_max)
          /\ IsErrVar(lpVars[result.val[N + 2 * i]], i - 1, "_minus", err_max)

\* C2: the variable created for coefficient k has the lower bound of
\* coeff_ranges[k], or -infinity when that is None, and the upper bound of
\* coeff_ranges[k], or +infinity when that is None, whatever the other
\* entries are.
C2_BoundsFromOwnRange ==
  (entry # "minimize_error" /\ ~coeff_ranges.none)
  => \A k \in 1..N :
       k <= Len(lpVars)
       => /\ lpVars[k].lb = WantedLower(coeff_ranges.val[k])
          /\ lpVars[k].ub = WantedUpper(coeff_ranges.val[k])

\* _generate_constraints has returned in this call of get_optimal_polynomial
ConstraintsBuilt ==
  GopCall /\ (pc \in {"solve", "after_solve", "extract", "done"} \/ solveCalls > 0)

RECURSIVE Exp(_, _)
Exp(x, n) == IF n = 0 THEN 1 ELSE x * Exp(x, n - 1)

\* C3: _generate_constraints builds one constraint per point, none before it
\* runs; the constraint of point i = (x, y) is the equality to y in which
\* coefficient k (from 0, of N) weighs x^(N-1-k), the point's positive
\* deviation -1 and its negative deviation +1, and no other point's deviation
\* variable appears.
C3_OneEqualityPerPoint ==
  /\ (GopCall /\ ~ConstraintsBuilt) => lpCons = <<>>
  /\ ConstraintsBuilt
     => /\ Len(lpCons) = M
        /\ \A i \in 1..M :
             LET c == lpCons[i]
                 x == points.val[i][1]
                 y == points.val[i][2]
                 plus == N + 2 * i - 1
                 minus == N + 2 * i
             IN /\ c.lb = y /\ c.ub = y
                /\ \A k \in 0..(N - 1) :
                     /\ lpVars[k + 1].name = CoeffNames(N)[k + 1]
                     /\ (k + 1) \in DOMAIN c.coef
                     /\ c.coef[k + 1] = Exp(x, N - 1 - k)
                /\ lpVars[plus].name = ErrVarName(i - 1, "_plus")
                /\ lpVars[minus].name = ErrVarName(i - 1, "_minus")
                /\ WeightOf(c.coef, plus) = -1
                /\ WeightOf(c.coef, minus) = 1
                /\ DOMAIN c.coef = (1..N) \cup {plus, minus}

\* C3 witness: constraints built for three coefficients and two points, one
\* with x = 0 and one with x = 2
C3_Witness ==
  /\ ConstraintsBuilt
  /\ N = 3
  /\ M = 2
  /\ points.val[1][1] = 0
  /\ points.val[2][1] = 2
  /\ lpCons[2].coef[1] = 4

\* _generate_objective_fn has returned in this call of get_optimal_polynomial
ObjectiveBuilt ==
  GopCall /\ (pc \in {"constraints", "solve", "after_solve", "extract", "done"}
              \/ solveCalls > 0)

\* C4: the objective built for N coefficients weighs every deviation variable
\* 1 and every coefficient variable 0, and minimizes; building it adds no
\* variable and no constraint.
C4_ObjectiveMinimizesDeviations ==
  (ObjectiveBuilt /\ ~InvalidInput)
  => /\ \A i \in 1..Len(variables) :
          WeightOf(objCoef, variables[i]) = (IF i > N THEN 1 ELSE 0)
     /\ objDir = "MIN"
     /\ Len(lpVars) = N + 2 * M
     /\ pc = "constraints" => lpCons = <<>>

\* C5: when the solve is optimal, get_optimal_polynomial returns N entries,
\* entry k being the name of coefficient variable k with its solved value,
\* the names pairwise distinct ("m", "b" when N = 2).
C5_AllCoefficientsReturned ==
  (GopCall /\ Terminated /\ status = "OPTIMAL" /\ ~InvalidInput)
  => /\ pc = "done"
     /\ result.kind = "dict"
     /\ Len(result.val) = N
     /\ \A k \in 1..N : result.val[k] = << lpVars[k].name, solution[k] >>
     /\ \A j, k \in 1..N : j # k => result.val[j][1] # result.val[k][1]
     /\ N = 2 => (result.val[1][1] = "m" /\ result.val[2][1] = "b")

\* C6: a solve that is not optimal ends get_optimal_polynomial in a failure
\* carrying the status; a coefficient mapping is returned only after an
\* optimal solve, and Solve is called once.
C6_NonOptimalIsFailure ==
  (GopCall /\ ~InvalidInput)
  => /\ solveCalls <= 1
     /\ (Terminated /\ solveCalls = 1 /\ status # "OPTIMAL")
        => (pc = "raised" /\ exception = "SolveFailed")
     /\ result.kind = "dict" => (solveCalls = 1 /\ status = "OPTIMAL")

\* C7: get_optimal_polynomial with SUM_MAX_DEVIATION ends in NotSupported and
\* never builds or solves an LP.
C7_OtherDefinitionNotSupported ==
  (GopCall /\ error_def = "SUM_MAX_DEVIATION" /\ ~InvalidInput)
  => /\ lpVars = <<>>
     /\ lpCons = <<>>
     /\ solveCalls = 0
     /\ Terminated => (pc = "raised" /\ exception = "NotSupported")

\* C8: get_optimal_polynomial with a missing or empty coefficient list, a
\* negative err_max or a range whose lower bound exceeds its upper bound ends
\* in an invalid argument error (Python's ValueError) before any variable or
\* constraint is created and before Solve is called.
C8_FailFast ==
  (GopCall /\ InvalidInput)
  => /\ lpVars = <<>>
     /\ lpCons = <<>>
     /\ solveCalls = 0
     /\ Terminated => (pc = "raised" /\ exception = "ValueError")

\* C9: minimize_error solves the LP of the points and ranges it is given (one
\* constraint per point, built from the point; coefficient variables bounded
\* by the ranges) and returns that LP's solved coefficients.
C9_FitsTheGivenPoints ==
  (entry = "minimize_error" /\ pc = "done")
  => /\ Len(lpCons) = M
     /\ \A i \in 1..M : lpCons[i].lb = points.val[i][2]
     /\ Len(lpVars) = N + 2 * M
     /\ \A k \in 1..N :
          /\ lpVars[k].lb = WantedLower(coeff_ranges.val[k])
          /\ lpVars[k].ub = WantedUpper(coeff_ranges.val[k])
     /\ result.kind = "tuple"
     /\ Len(result.val) = N
     /\ \A k \in 1..N : result.val[k] = 1000000 * solution[k]

Abs(n) == IF n < 0 THEN -n ELSE n

\* the value at x of the polynomial whose coefficients are the solved values
RECURSIVE Poly(_, _)
Poly(x, k) == IF k = 0 THEN 0 ELSE Poly(x, k - 1) + solution[k] * Exp(x, N - k)

Residual(i) == points.val[i][2] - Poly(points.val[i][1], N)

RECURSIVE SumAbsResiduals(_)
SumAbsResiduals(i) == IF i = 0 THEN 0 ELSE SumAbsResiduals(i - 1) + Abs(Residual(i))

RECURSIVE SumDeviations(_)
SumDeviations(i) ==
  IF i = 0 THEN 0
  ELSE SumDeviations(i - 1) + solution[N + 2 * i - 1] + solution[N + 2 * i]

\* C10: in every optimal assignment of the LP get_optimal_polynomial builds,
\* at most one of a point's two deviations is positive, their sum is the
\* absolute residual of the point, and the objective value is the sum of the
\* absolute residuals.
C10_DeviationsAreAbsoluteResiduals ==
  (GopCall /\ status = "OPTIMAL" /\ ~InvalidInput)
  => /\ \A i \in 1..M :
          LET e_plus == solution[N + 2 * i - 1]
              e_minus == solution[N + 2 * i]
          IN /\ ~(e_plus > 0 /\ e_minus > 0)
             /\ e_plus + e_minus = Abs(Residual(i))
     /\ SumDeviations(M) = SumAbsResiduals(M)

====
